---- MODULE Spec2Model ----
(***************************************************************************)
(* Model of the activity-tree builder of activity_network.py.              *)
(*                                                                         *)
(* Strings are sequences of one-character strings, so that lower(),        *)
(* strip() and replace() are computed character by character.  A node id   *)
(* f"L{layer}_{normalised label}" is the pair <<layer, normalised label>>; *)
(* the id "day_activity" is DayActivityId; parent = None is None.          *)
(* The external model (the oracle) is a nondeterministic choice of one     *)
(* outcome per call.                                                       *)
(***************************************************************************)
EXTENDS Integers, Sequences, FiniteSets, TLC

VARIABLES pc, activities, nodes, gi, layer1_concepts, current_layer,
          current_concepts, current_concept_ids, broader_concepts, entered,
          file, calls, tree_data, web, tracker

vars == <<pc, activities, nodes, gi, layer1_concepts, current_layer,
          current_concepts, current_concept_ids, broader_concepts, entered,
          file, calls, tree_data, web, tracker>>

----------------------------------------------------------------------------
(* Bounds *)

MaxEntries == 2

(* key presses and mouse clicks of a run of the tracker *)
MaxKeys == 3

MaxClicks == 1

MaxExtractReply == 2

MaxAggReply == 3

MaxTextPieces == 1

MaxBlob == 6

(* concepts[:4] *)
MaxConcepts == 4

----------------------------------------------------------------------------
(* Strings *)

SeqsUpTo(S, n) == UNION {[1..k -> S] : k \in 0..n}

Range(s) == {s[i] : i \in DOMAIN s}

InSeq(x, s) == \E i \in DOMAIN s : s[i] = x

Prefix(s, n) == SubSeq(s, 1, IF Len(s) < n THEN Len(s) ELSE n)

LowerChar(c) ==
    CASE c = "A" -> "a"
      [] c = "B" -> "b"
      [] c = "C" -> "c"
      [] OTHER -> c

Lower(s) == [i \in DOMAIN s |-> LowerChar(s[i])]

RECURSIVE LStripChars(_, _)
LStripChars(s, cs) ==
    IF s # <<>> /\ Head(s) \in cs THEN LStripChars(Tail(s), cs) ELSE s

RECURSIVE RStripChars(_, _)
RStripChars(s, cs) ==
    IF s # <<>> /\ s[Len(s)] \in cs
    THEN RStripChars(SubSeq(s, 1, Len(s) - 1), cs) ELSE s

StripChars(s, cs) == RStripChars(LStripChars(s, cs), cs)

Whitespace == {" ", "\n"}

Strip(s) == StripChars(s, Whitespace)

Replace(s, from, to) == [i \in DOMAIN s |-> IF s[i] = from THEN to ELSE s[i]]

(* sep.join(strs) *)
RECURSIVE Join(_, _)
Join(strs, sep) ==
    IF strs = <<>> THEN <<>>
    ELSE IF Len(strs) = 1 THEN strs[1]
    ELSE strs[1] \o sep \o Join(Tail(strs), sep)

(* label.replace(' ', '_').replace('/', '_') *)
NormLabel(s) == Replace(Replace(s, " ", "_"), "/", "_")

NodeId(layer, label) == <<layer, NormLabel(label)>>

DayActivityId == <<0, <<"day_activity">>>>

None == <<-1, <<>>>>

----------------------------------------------------------------------------
(* Nodes *)

ActivityNode(id, label, layer, content, children, parent) ==
    [id |-> id, label |-> label, layer |-> layer, content |-> content,
     children |-> children, parent |-> parent]

(* nodes[k] = v *)
Put(f, k, v) == [x \in DOMAIN f \cup {k} |-> IF x = k THEN v ELSE f[x]]

EmptyMap == [x \in {} |-> None]

----------------------------------------------------------------------------
(* Inputs *)

ActivityNames == {<<"A">>, <<"a", " ", "b">>, <<"a", "/", "b">>}

(* items of a JSON list reply to the extraction call; <<>> is a falsy item *)
ExtractItems == {<<"a", " ", "b">>, <<"C", " ">>, <<>>}

(* items of a JSON list reply to the aggregation call *)
AggregateItems == {<<"a", " ", "b">>, <<"A", "/", "b", " ">>, <<"C">>}

(* pieces of a reply that is not a JSON list, between commas and newlines *)
TextPieces == {<<"[", "\"", "C", "\"">>, <<" ">>}

OracleRaise == [kind |-> "raise", items |-> <<>>]

JsonReplies(items, n) == {[kind |-> "json_list", items |-> s] : s \in SeqsUpTo(items, n)}

TextReplies(n) == {[kind |-> "text", items |-> s] : s \in SeqsUpTo(TextPieces, n)}

ExtractOutcomes == {OracleRaise} \cup JsonReplies(ExtractItems, MaxExtractReply) \cup TextReplies(MaxTextPieces)

AggregateOutcomes == {OracleRaise} \cup JsonReplies(AggregateItems, MaxAggReply) \cup TextReplies(MaxTextPieces)

(* the file has been read and segmented: the build starts from its entries *)
Segmented == [kind |-> "segmented", text |-> <<>>]

(* nothing has been serialised *)
NoTreeData == [done |-> FALSE, truncate_content |-> FALSE, nodes |-> {}]

Entry(i, name) == [timestamp |-> <<"ts", i>>, activity |-> name, content |-> <<"text", i>>]

----------------------------------------------------------------------------
(* parse_refined_text *)

(* a token that stands for a substring matched by timestamp_pattern *)
Markers == {"T1", "T2"}

(* the characters of a file: markers, letters and the newline *)
BlobChars == Markers \cup {"A", "b", "\n"}

Files ==
    {[kind |-> "missing", text |-> <<>>], [kind |-> "unreadable", text |-> <<>>]} \cup
    {[kind |-> "text", text |-> t] : t \in SeqsUpTo(BlobChars, MaxBlob)}

(* re.split(timestamp_pattern, content) with one capturing group *)
RECURSIVE ReSplit(_, _)
ReSplit(text, section) ==
    IF text = <<>> THEN <<section>>
    ELSE IF Head(text) \in Markers
         THEN <<section, <<Head(text)>>>> \o ReSplit(Tail(text), <<>>)
         ELSE ReSplit(Tail(text), Append(section, Head(text)))

(* s.split(sep) *)
RECURSIVE Split(_, _, _)
Split(s, sep, piece) ==
    IF s = <<>> THEN <<piece>>
    ELSE IF Head(s) = sep
         THEN <<piece>> \o Split(Tail(s), sep, <<>>)
         ELSE Split(Tail(s), sep, Append(piece, Head(s)))

(* [line.strip() for line in text_block.split('\n') if line.strip()] *)
Lines(text_block) ==
    LET pieces == Split(text_block, "\n", <<>>)
        stripped == [i \in DOMAIN pieces |-> Strip(pieces[i])]
    IN SelectSeq(stripped, LAMBDA line : line # <<>>)

(* the content is joined from all the lines, the label included *)
BlockEntryAllLines(timestamp, lines) ==
    [timestamp |-> timestamp, activity |-> lines[1], content |-> Join(lines, <<"\n">>)]

(* activity_name, activity_content of the lines of a text block *)
BlockEntry(timestamp, lines) ==
    LET activity_name == lines[1]
        joined == IF Len(lines) > 1 THEN Join(Tail(lines), <<"\n">>) ELSE <<>>
        activity_content == IF joined = <<>> THEN activity_name ELSE joined
    IN [timestamp |-> timestamp, activity |-> activity_name, content |-> activity_content]

(* a blank pair ends the loop *)
RECURSIVE ParseSectionsStopAtBlank(_, _)
ParseSectionsStopAtBlank(sections, i) ==
    IF i >= Len(sections) THEN <<>>
    ELSE LET timestamp == Strip(sections[i])
             text_block == Strip(sections[i + 1])
             lines == Lines(text_block)
         IN IF timestamp = <<>> \/ text_block = <<>> \/ lines = <<>>
            THEN <<>>
            ELSE <<BlockEntry(timestamp, lines)>> \o ParseSectionsStopAtBlank(sections, i + 2)

(* the while loop over the sections; i is the Python index plus one *)
RECURSIVE ParseSections(_, _)
ParseSections(sections, i) ==
    IF i >= Len(sections) THEN <<>>
    ELSE LET timestamp == Strip(sections[i])
             text_block == Strip(sections[i + 1])
             lines == Lines(text_block)
         IN IF timestamp = <<>> \/ text_block = <<>> \/ lines = <<>>
            THEN ParseSections(sections, i + 2)
            ELSE <<BlockEntry(timestamp, lines)>> \o ParseSections(sections, i + 2)

parse_refined_text(f) ==
    IF f.kind # "text" THEN <<>>
    ELSE LET sections == ReSplit(f.text, <<>>)
         IN ParseSections(sections, IF Strip(sections[1]) = <<>> THEN 2 ELSE 1)

----------------------------------------------------------------------------
(* identify_layer1_activities *)

RECURSIVE GroupNames(_, _)
GroupNames(acts, seen) ==
    IF acts = <<>> THEN <<>>
    ELSE LET activity_name == Strip(Head(acts).activity)
         IN IF activity_name = <<>> \/ InSeq(activity_name, seen)
            THEN GroupNames(Tail(acts), seen)
            ELSE <<activity_name>> \o GroupNames(Tail(acts), Append(seen, activity_name))

(* a later entry of a label replaces the group instead of extending it *)
GroupOfLastOnly(acts, name) ==
    LET all == SelectSeq(acts, LAMBDA a : Strip(a.activity) = name)
    IN <<all[Len(all)]>>

GroupOf(acts, name) ==
    SelectSeq(acts, LAMBDA a : Strip(a.activity) = name)

identify_layer1_activities(acts) ==
    LET names == GroupNames(acts, <<>>)
    IN [g \in 1..Len(names) |-> [name |-> names[g], entries |-> GroupOf(acts, names[g])]]

activity_groups == identify_layer1_activities(activities)

----------------------------------------------------------------------------
(* Oracle adapter *)

StripNoise(c) == StripChars(Strip(c), {"\"", "'", "[", "]"})

(* [c.strip().strip('"\'[]') for c in response.replace('\n', ',').split(',')], *)
(* then [c.lower() for c in concepts if c]                                     *)
ParseFallback(pieces) ==
    LET stripped == [i \in DOMAIN pieces |-> StripNoise(pieces[i])]
        kept == SelectSeq(stripped, LAMBDA c : c # <<>>)
    IN [i \in DOMAIN kept |-> Lower(kept[i])]

(* [str(c).lower().strip() for c in items if c] *)
ParseJsonList(items) ==
    LET kept == SelectSeq(items, LAMBDA c : c # <<>>)
    IN [i \in DOMAIN kept |-> Strip(Lower(kept[i]))]

(* the fallback keeps the case of the activity name *)
extract_fallback_not_lowered(activity_name, o) ==
    CASE o.kind = "raise" -> <<activity_name>>
      [] o.kind = "json_list" -> ParseJsonList(Prefix(o.items, MaxConcepts))
      [] OTHER -> Prefix(ParseFallback(o.items), MaxConcepts)

extract_activity_concepts_llm(activity_name, o) ==
    CASE o.kind = "raise" -> <<Lower(activity_name)>>
      [] o.kind = "json_list" -> ParseJsonList(Prefix(o.items, MaxConcepts))
      [] OTHER -> Prefix(ParseFallback(o.items), MaxConcepts)

Max(a, b) == IF a > b THEN a ELSE b

aggregate_activities_llm(acts, o) ==
    IF Len(acts) <= 1 THEN acts
    ELSE LET target_count == Max(1, Len(acts) \div 2)
         IN CASE o.kind = "raise" -> Prefix(acts, target_count)
              [] o.kind = "json_list" -> ParseJsonList(o.items)
              [] OTHER -> Prefix(ParseFallback(o.items), target_count)

(* reply.strip().strip('"\'').lower() *)
DayTexts == {<<"\"", "D", "\"">>}

DayOutcomes == {OracleRaise} \cup {[kind |-> "text", items |-> <<t>>] : t \in DayTexts}

generate_day_activity_llm(concepts, o) ==
    IF Len(concepts) = 1 THEN concepts[1]
    ELSE IF o.kind = "raise" THEN Join(concepts, <<" ", "/", " ">>)
    ELSE Lower(StripChars(Strip(o.items[1]), {"\"", "'"}))

(* a call of the oracle for every concept list *)
DayCallsAlways(concepts) == 1

(* the calls of the oracle that generate_day_activity_llm makes *)
DayCalls(concepts) == IF Len(concepts) = 1 THEN 0 ELSE 1

(* the oracle calls made so far, by call site *)
NoCalls == [extract |-> 0, aggregate |-> 0, mapping |-> 0, day |-> 0]

(* a category that is none of the broader concepts *)
UnknownCategory == <<"z">>

(* the mapping call: it raises (or its reply is not a JSON object), or the *)
(* reply is a JSON object from some concepts to categories                 *)
MappingOutcomes(concepts, broader_list) ==
    LET keys == {Lower(c) : c \in Range(concepts)}
        values == Range(broader_list) \cup {UnknownCategory}
    IN {[kind |-> "raise", mapping |-> EmptyMap]} \cup
       {[kind |-> "dict", mapping |-> m] : m \in UNION {[d -> values] : d \in SUBSET keys}}

(* mapping.get(key, default) *)
MapGet(m, key, default) == IF key \in DOMAIN m THEN m[key] ELSE default

----------------------------------------------------------------------------
(* build_activity_tree *)

Orderings(S) == {s \in [1..Cardinality(S) -> S] : Range(s) = S}

(* the body of "for idx, concept in enumerate(concepts)" *)
RECURSIVE ConceptLoop(_, _, _, _)
ConceptLoop(nds, activity_id, concepts, idx) ==
    IF idx > Len(concepts) THEN nds
    ELSE LET concept == concepts[idx]
             concept_id == NodeId(2, concept)
             n1 == IF concept_id \notin DOMAIN nds
                   THEN Put(nds, concept_id,
                            ActivityNode(concept_id, concept, 2, <<>>, <<activity_id>>, None))
                   ELSE IF ~InSeq(activity_id, nds[concept_id].children)
                        THEN [nds EXCEPT ![concept_id].children = Append(@, activity_id)]
                        ELSE nds
             n2 == IF idx = 1 THEN [n1 EXCEPT ![activity_id].parent = concept_id] ELSE n1
         IN ConceptLoop(n2, activity_id, concepts, idx + 1)

(* "\n\n".join(f"{a['timestamp']}\n{a['content']}" for a in activity_list) *)
CombinedContent(activity_list) ==
    [i \in DOMAIN activity_list |-> <<activity_list[i].timestamp, activity_list[i].content>>]

Layer1Node(nds, activity_name, activity_list, concepts) ==
    LET activity_id == NodeId(1, activity_name)
        n0 == Put(nds, activity_id,
                  ActivityNode(activity_id, activity_name, 1,
                               CombinedContent(activity_list), <<>>, None))
    IN ConceptLoop(n0, activity_id, concepts, 1)

(* the round-robin counts the concepts from one *)
RoundRobinIndexFromOne(i, broader_list) == (i % Len(broader_list)) + 1

(* i % len(broader_concepts), i the Python index of the i-th concept *)
RoundRobinIndex(i, broader_list) == ((i - 1) % Len(broader_list)) + 1

(* the "Apply mapping" loop *)
RECURSIVE ApplyMapping(_, _, _, _, _, _)
ApplyMapping(cm, mapping, concepts, ids, broader_list, i) ==
    IF i > Len(concepts) THEN cm
    ELSE LET fallback == broader_list[RoundRobinIndex(i, broader_list)]
             broader == MapGet(mapping, Lower(concepts[i]), fallback)
             target == IF InSeq(broader, broader_list) THEN broader ELSE fallback
         IN ApplyMapping([cm EXCEPT ![target] = Append(@, ids[i])],
                         mapping, concepts, ids, broader_list, i + 1)

(* the round-robin loop of the except branch *)
RECURSIVE RoundRobin(_, _, _, _)
RoundRobin(cm, ids, broader_list, i) ==
    IF i > Len(ids) THEN cm
    ELSE RoundRobin([cm EXCEPT ![broader_list[RoundRobinIndex(i, broader_list)]] =
                         Append(@, ids[i])],
                    ids, broader_list, i + 1)

ConceptMapping(concepts, ids, broader_list, m) ==
    LET empty == [bc \in Range(broader_list) |-> <<>>]
    IN IF m.kind = "dict"
       THEN ApplyMapping(empty, m.mapping, concepts, ids, broader_list, 1)
       ELSE RoundRobin(empty, ids, broader_list, 1)

(* "for child_id in children: if child_id in nodes: nodes[child_id].parent = concept_id" *)
RECURSIVE SetParents(_, _, _)
SetParents(nds, children, parent_id) ==
    IF children = <<>> THEN nds
    ELSE LET child_id == Head(children)
             n1 == IF child_id \in DOMAIN nds
                   THEN [nds EXCEPT ![child_id].parent = parent_id] ELSE nds
         IN SetParents(n1, Tail(children), parent_id)

(* a category without children gets no node *)
RECURSIVE CreateLayerSkipEmpty(_, _, _, _, _)
CreateLayerSkipEmpty(nds, broader_list, concept_mapping, layer, i) ==
    IF i > Len(broader_list) THEN nds
    ELSE LET broader == broader_list[i]
             concept_id == NodeId(layer, broader)
             children == concept_mapping[broader]
             n1 == IF children = <<>> THEN nds
                   ELSE Put(nds, concept_id,
                            ActivityNode(concept_id, broader, layer, <<>>, children, None))
         IN CreateLayerSkipEmpty(SetParents(n1, children, concept_id),
                                 broader_list, concept_mapping, layer, i + 1)

(* the "Create new layer nodes" loop *)
RECURSIVE CreateLayer(_, _, _, _, _)
CreateLayer(nds, broader_list, concept_mapping, layer, i) ==
    IF i > Len(broader_list) THEN nds
    ELSE LET broader == broader_list[i]
             concept_id == NodeId(layer, broader)
             children == concept_mapping[broader]
             n1 == Put(nds, concept_id,
                       ActivityNode(concept_id, broader, layer, <<>>, children, None))
         IN CreateLayer(SetParents(n1, children, concept_id),
                        broader_list, concept_mapping, layer, i + 1)

(* the non-convergence guard *)
NoReduction(broader_list) == Len(broader_list) >= Len(current_concepts)

(* no truncation *)
NoForcedReduction(broader_list) == broader_list

(* the last half is kept: broader_concepts[-(len(current_concepts)//2):] *)
ForcedReductionLastHalf(broader_list) ==
    IF NoReduction(broader_list)
    THEN SubSeq(broader_list, Len(broader_list) - (Len(current_concepts) \div 2) + 1,
                Len(broader_list))
    ELSE broader_list

(* broader_concepts = broader_concepts[:len(current_concepts)//2] under the guard *)
ForcedReduction(broader_list) ==
    IF NoReduction(broader_list)
    THEN Prefix(broader_list, Len(current_concepts) \div 2)
    ELSE broader_list

(* webapp: no tree file of the date in the data folder *)
NoTreeFile == [done |-> FALSE, truncate_content |-> FALSE, nodes |-> {}]

(* webapp: no request has been handled *)
NoRequest == [tree_file |-> NoTreeFile, status |-> 0, request |-> "none", refine |-> "none"]

(* ActivityTracker.__init__, with empty tables and the three threads at rest *)
NewTracker ==
    [keystroke_count |-> 0, mouse_clicks |-> 0, keystroke_buffer |-> <<>>,
     keystroke_log |-> <<>>, activity_log |-> {},
     listener |-> "idle", pressed |-> 0, clicked |-> 0, loaded_count |-> 0,
     save |-> "sleep", i |-> 1, app_keystrokes |-> EmptyMap, flush |-> 0]

(* the build has not begun *)
InitBuild ==
    /\ web = NoRequest
    /\ tracker = NewTracker
    /\ nodes = EmptyMap
    /\ gi = 1
    /\ layer1_concepts = <<>>
    /\ current_layer = 0
    /\ current_concepts = <<>>
    /\ current_concept_ids = <<>>
    /\ broader_concepts = <<>>
    /\ entered = <<>>
    /\ calls = NoCalls
    /\ tree_data = NoTreeData

(* the state at Step 2, for the entry sequences of the given lengths *)
InitEntries(lengths) ==
    /\ \E n \in lengths : \E names \in [1..n -> ActivityNames] :
           activities = [i \in 1..n |-> Entry(i, names[i])]
    /\ pc = "step1"
    /\ file = Segmented
    /\ InitBuild

(* the state at Step 1, for the files *)
InitInput ==
    /\ file \in Files
    /\ pc = "parse"
    /\ activities = <<>>
    /\ InitBuild

(* Step 1: activities = parse_refined_text(file_path) *)
ParseFile ==
    /\ pc = "parse"
    /\ activities' = parse_refined_text(file)
    /\ pc' = "step1"
    /\ UNCHANGED <<web, tracker, file, calls, tree_data, nodes, gi, layer1_concepts, current_layer,
                   current_concepts, current_concept_ids, broader_concepts, entered>>

Init == InitEntries(0..MaxEntries)

(* the build goes on without entries *)
StartNoEmptyCheck ==
    /\ pc = "step1"
    /\ pc' = "step3"
    /\ UNCHANGED <<web, tracker, file, calls, tree_data, activities, nodes, gi, layer1_concepts, current_layer,
                   current_concepts, current_concept_ids, broader_concepts, entered>>

(* Steps 1 and 2: no entries, return {} *)
Start ==
    /\ pc = "step1"
    /\ pc' = IF activities = <<>> THEN "done" ELSE "step3"
    /\ UNCHANGED <<web, tracker, file, calls, tree_data, activities, nodes, gi, layer1_concepts, current_layer,
                   current_concepts, current_concept_ids, broader_concepts, entered>>

(* the results of the extraction call over the outcomes of the oracle *)
ExtractResults(activity_name, outcomes) ==
    {extract_activity_concepts_llm(activity_name, o) : o \in outcomes}

(* Step 3: one iteration of "for activity_name, activity_list in activity_groups.items()" *)
ExtractStepWith(outcomes) ==
    /\ pc = "step3"
    /\ gi <= Len(activity_groups)
    /\ \E concepts \in ExtractResults(activity_groups[gi].name, outcomes) :
           /\ nodes' = Layer1Node(nodes, activity_groups[gi].name,
                                  activity_groups[gi].entries, concepts)
           /\ layer1_concepts' = Append(layer1_concepts, concepts)
    /\ gi' = gi + 1
    /\ calls' = [calls EXCEPT !.extract = @ + 1]
    /\ UNCHANGED <<web, tracker, file, tree_data, pc, activities, current_layer, current_concepts,
                   current_concept_ids, broader_concepts, entered>>

ExtractStep == ExtractStepWith(ExtractOutcomes)

(* Step 4, before the loop: current_concepts = list(set(...)) in any order *)
StartAggregation ==
    /\ pc = "step3"
    /\ gi > Len(activity_groups)
    /\ current_layer' = 2
    /\ \E order \in Orderings(UNION {Range(layer1_concepts[g]) : g \in DOMAIN layer1_concepts}) :
        /\ current_concepts' = order
        /\ current_concept_ids' = [i \in DOMAIN order |-> NodeId(2, order[i])]
    /\ pc' = "loop"
    /\ UNCHANGED <<web, tracker, file, calls, tree_data, activities, nodes, gi, layer1_concepts, broader_concepts, entered>>

(* "while len(current_concepts) > 1" is false *)
LoopExit ==
    /\ pc = "loop"
    /\ Len(current_concepts) <= 1
    /\ pc' = "step5"
    /\ UNCHANGED <<web, tracker, file, calls, tree_data, activities, nodes, gi, layer1_concepts, current_layer,
                   current_concepts, current_concept_ids, broader_concepts, entered>>

(* the results of the aggregation call over the outcomes of the oracle *)
AggregateResults(outcomes) ==
    {aggregate_activities_llm(current_concepts, o) : o \in outcomes}

(* the top of a round: the aggregation call and the non-convergence guard, *)
(* no reduction of two or fewer concepts: "break"                          *)
RoundBreakWith(outcomes) ==
    /\ pc = "loop"
    /\ Len(current_concepts) > 1
    /\ Len(current_concepts) <= 2
    /\ \E broader \in AggregateResults(outcomes) : NoReduction(broader)
    /\ current_layer' = current_layer + 1
    /\ pc' = "step5"
    /\ calls' = [calls EXCEPT !.aggregate = @ + 1]
    /\ UNCHANGED <<web, tracker, file, tree_data, activities, nodes, gi, layer1_concepts, current_concepts,
                   current_concept_ids, broader_concepts, entered>>

RoundBreak == RoundBreakWith(AggregateOutcomes)

(* the top of a round: the aggregation call and the non-convergence guard, *)
(* the round goes on with broader_concepts                                 *)
AggregateCallWith(outcomes) ==
    /\ pc = "loop"
    /\ Len(current_concepts) > 1
    /\ \E broader \in AggregateResults(outcomes) :
        /\ ~(NoReduction(broader) /\ Len(current_concepts) <= 2)
        /\ broader_concepts' = ForcedReduction(broader)
    /\ current_layer' = current_layer + 1
    /\ pc' = "map"
    /\ calls' = [calls EXCEPT !.aggregate = @ + 1]
    /\ UNCHANGED <<web, tracker, file, tree_data, activities, nodes, gi, layer1_concepts, current_concepts,
                   current_concept_ids, entered>>

AggregateCall == AggregateCallWith(AggregateOutcomes)

(* the rest of a round with no broader concept: i % len(broader_concepts) *)
(* raises ZeroDivisionError, also inside the except branch                *)
RoundDivideByZero ==
    /\ pc = "map"
    /\ Len(broader_concepts) = 0
    /\ pc' = "raised"
    /\ calls' = [calls EXCEPT !.mapping = @ + 1]
    /\ UNCHANGED <<web, tracker, file, tree_data, activities, nodes, gi, layer1_concepts, current_layer, current_concepts,
                   current_concept_ids, broader_concepts, entered>>

(* the concept_mapping of a round over the outcomes of the mapping call *)
MappingResults(outcomes) ==
    {ConceptMapping(current_concepts, current_concept_ids, broader_concepts, m) : m \in outcomes}

(* the rest of a round: the mapping call and the nodes of the new layer *)
RoundBuildWith(kinds) ==
    /\ pc = "map"
    /\ Len(broader_concepts) > 0
    /\ \E concept_mapping \in
           MappingResults({m \in MappingOutcomes(current_concepts, broader_concepts) :
                               m.kind \in kinds}) :
          nodes' = CreateLayer(nodes, broader_concepts, concept_mapping, current_layer, 1)
    /\ current_concepts' = broader_concepts
    /\ current_concept_ids' =
         [i \in DOMAIN broader_concepts |-> NodeId(current_layer, broader_concepts[i])]
    /\ entered' = current_concept_ids
    /\ pc' = "loop"
    /\ calls' = [calls EXCEPT !.mapping = @ + 1]
    /\ UNCHANGED <<web, tracker, file, tree_data, activities, gi, layer1_concepts, current_layer, broader_concepts>>

RoundBuild == RoundBuildWith({"raise", "dict"})

(* a root one layer below: layer=current_layer *)
DayActivityNodeSameLayer(day_activity) ==
    ActivityNode(DayActivityId, day_activity, current_layer, <<>>, current_concept_ids, None)

(* the root node *)
DayActivityNode(day_activity) ==
    ActivityNode(DayActivityId, day_activity, current_layer + 1, <<>>, current_concept_ids, None)

(* Step 5: the root *)
RootSynthesisWith(outcomes) ==
    /\ pc = "step5"
    /\ \E o \in outcomes :
        LET day_activity == generate_day_activity_llm(current_concepts, o)
            n1 == Put(nodes, DayActivityId, DayActivityNode(day_activity))
        IN nodes' = SetParents(n1, current_concept_ids, DayActivityId)
    /\ pc' = "done"
    /\ calls' = [calls EXCEPT !.day = @ + DayCalls(current_concepts)]
    /\ UNCHANGED <<web, tracker, file, tree_data, activities, gi, layer1_concepts, current_layer, current_concepts,
                   current_concept_ids, broader_concepts, entered>>

RootSynthesis == RootSynthesisWith(DayOutcomes)

Next ==
    \/ Start
    \/ ExtractStep
    \/ StartAggregation
    \/ LoopExit
    \/ RoundBreak
    \/ AggregateCall
    \/ RoundDivideByZero
    \/ RoundBuild
    \/ RootSynthesis

Spec == Init /\ [][Next]_vars

(* the build when every call of the oracle raises *)
NextAllRaise ==
    \/ Start
    \/ ExtractStepWith({OracleRaise})
    \/ StartAggregation
    \/ LoopExit
    \/ AggregateCallWith({OracleRaise})
    \/ RoundBuildWith({"raise"})
    \/ RootSynthesisWith({OracleRaise})

SpecAllRaise == Init /\ [][NextAllRaise]_vars /\ WF_vars(NextAllRaise)

(* the build from the file, when every call of the oracle raises *)
NextInput ==
    \/ ParseFile
    \/ NextAllRaise

SpecInput == InitInput /\ [][NextInput]_vars

(* the build of one more entry, when the extraction call raises or replies *)
(* with two concepts, the aggregation call replies with a JSON list and    *)
(* the other calls raise                                                   *)
InitRounds == InitEntries({MaxEntries + 1})

TwoConcepts == [kind |-> "json_list", items |-> <<<<"a", " ", "b">>, <<"C", " ">>>>]

NextRounds ==
    \/ Start
    \/ ExtractStepWith({OracleRaise, TwoConcepts})
    \/ StartAggregation
    \/ LoopExit
    \/ RoundBreakWith(JsonReplies(AggregateItems, MaxAggReply))
    \/ AggregateCallWith(JsonReplies(AggregateItems, MaxAggReply))
    \/ RoundDivideByZero
    \/ RoundBuildWith({"raise"})
    \/ RootSynthesisWith({OracleRaise})

SpecRounds == InitRounds /\ [][NextRounds]_vars

(* content[:200] *)
TruncateLen == 200

Ellipsis == <<".", ".", ".">>

(* the string of a node's content: the entries joined by a blank line *)
ContentText(content) ==
    Join([i \in DOMAIN content |-> content[i][1] \o <<"\n">> \o content[i][2]],
         <<"\n", "\n">>)

(* truncation of a content of 200 characters or more *)
SerializedContentFrom200(content, truncate_content) ==
    LET text == ContentText(content)
    IN IF truncate_content /\ Len(text) >= TruncateLen
       THEN SubSeq(text, 1, TruncateLen) \o Ellipsis ELSE text

(* (node.content[:200] + "..." if len(node.content) > 200 else node.content) *)
(* if truncate_content else node.content                                     *)
SerializedContent(content, truncate_content) ==
    LET text == ContentText(content)
    IN IF truncate_content
       THEN (IF Len(text) > TruncateLen
             THEN SubSeq(text, 1, TruncateLen) \o Ellipsis ELSE text)
       ELSE text

(* the records of tree_data['nodes']; their order is not modelled *)
tree_to_dict(nds, truncate_content) ==
    {[id |-> nds[k].id, label |-> nds[k].label, layer |-> nds[k].layer,
      content |-> SerializedContent(nds[k].content, truncate_content),
      children |-> nds[k].children, parent |-> nds[k].parent] : k \in DOMAIN nds}

(* the empty map is written like any other *)
EmptyResultIgnored(nds) == FALSE

(* webapp: "if not nodes" *)
EmptyResult(nds) == DOMAIN nds = {}

(* webapp: tree_data = tree_to_dict(nodes, truncate_content=False), written *)
(* to the tree file of the date, and the success response                   *)
TreeToDict ==
    /\ pc = "done"
    /\ ~EmptyResult(nodes)
    /\ tree_data' = [done |-> TRUE, truncate_content |-> FALSE,
                     nodes |-> tree_to_dict(nodes, FALSE)]
    /\ web' = [web EXCEPT !.tree_file = tree_data', !.status = 200]
    /\ pc' = "serialized"
    /\ UNCHANGED <<tracker, file, calls, activities, nodes, gi, layer1_concepts, current_layer,
                   current_concepts, current_concept_ids, broader_concepts, entered>>

(* main: save_tree_json(nodes, output_path) *)
save_tree_json ==
    /\ pc = "done"
    /\ DOMAIN nodes # {}
    /\ tree_data' = [done |-> TRUE, truncate_content |-> TRUE,
                     nodes |-> tree_to_dict(nodes, TRUE)]
    /\ pc' = "serialized"
    /\ UNCHANGED <<web, tracker, file, calls, activities, nodes, gi, layer1_concepts, current_layer,
                   current_concepts, current_concept_ids, broader_concepts, entered>>

(* a content of n characters *)
Filler(n) == [k \in 1..n |-> "x"]

(* content lengths around the truncation length: with the timestamp and the *)
(* newline a content of TruncateLen - 2 characters gives a text of 200      *)
ContentLens == {1, TruncateLen - 2, TruncateLen - 1}

(* the state at Step 2, for entries with short and long contents; a         *)
(* timestamp is one marker token                                            *)
InitSerialize ==
    /\ \E n \in 0..MaxEntries : \E names \in [1..n -> ActivityNames] :
       \E lens \in [1..n -> ContentLens] : \E stamps \in [1..n -> Markers] :
           activities = [i \in 1..n |-> [timestamp |-> <<stamps[i]>>, activity |-> names[i],
                                         content |-> Filler(lens[i])]]
    /\ pc = "step1"
    /\ file = Segmented
    /\ InitBuild

(* the build when every call of the oracle raises, and the serialisation *)
NextSerialize ==
    \/ NextAllRaise
    \/ TreeToDict
    \/ save_tree_json

SpecSerialize == InitSerialize /\ [][NextSerialize]_vars

----------------------------------------------------------------------------
(* Properties *)

Returned == pc = "done"

Children(id) == Range(nodes[id].children)

NodesOfLayer(k) == {id \in DOMAIN nodes : nodes[id].layer = k}

Roots == {id \in DOMAIN nodes : nodes[id].parent = None}

(* C1: a returned non-empty node map has exactly one node with parent = None, *)
(* the root day_activity, and every other node has a parent that is a key of  *)
(* the map.                                                                   *)
C1_SingleRoot ==
    (Returned /\ DOMAIN nodes # {}) =>
        /\ Roots = {DayActivityId}
        /\ \A id \in DOMAIN nodes \ {DayActivityId} : nodes[id].parent \in DOMAIN nodes

(* C2: for a non-empty entry sequence the build never raises, whatever the   *)
(* oracle does, and the returned map contains the root.                      *)
C2_NeverRaises ==
    /\ pc # "raised"
    /\ (Returned /\ activities # <<>>) => DayActivityId \in DOMAIN nodes

(* the number of concepts the loop starts with *)
InitialConcepts == Cardinality(UNION {Range(layer1_concepts[g]) : g \in DOMAIN layer1_concepts})

(* the number of rounds begun so far *)
Rounds == current_layer - 2

(* C3: the aggregation loop ends after finitely many rounds: every round     *)
(* that creates a new layer makes the concept list strictly shorter, and so  *)
(* a loop that starts with n concepts begins at most n - 1 rounds.           *)
C3_MonotonicConvergence ==
    /\ [][(pc = "map" /\ pc' = "loop") => Len(current_concepts') < Len(current_concepts)]_vars
    /\ [](current_layer >= 2 => Rounds <= Max(InitialConcepts - 1, 0))

(* two rounds, 3 -> 2 -> 1 concepts, and the build has ended *)
C3_Witness ==
    /\ Returned
    /\ current_layer = 4
    /\ Len(entered) = 2
    /\ Len(current_concepts) = 1
    /\ Cardinality(NodesOfLayer(2)) = 3

(* C4: every id in the children list of a node is a key of the node map,     *)
(* after Layer-1 construction, after each round and after root synthesis.    *)
C4_NoOrphanChildren ==
    \A id \in DOMAIN nodes : Children(id) \subseteq DOMAIN nodes

(* a returned tree with a round in which a category got no child *)
C4_Witness ==
    /\ Returned
    /\ current_layer >= 3
    /\ \E id \in NodesOfLayer(3) : nodes[id].children = <<>>
    /\ \E id \in NodesOfLayer(3) : Len(nodes[id].children) >= 2

(* C5: when every oracle call raises, the build of a non-empty entry         *)
(* sequence terminates, every Layer-1 node has as parent the Layer-2 node of *)
(* its lowercased activity label, and the returned map has a single root.    *)
C5_FallbackLiveness ==
    /\ <>Returned
    /\ [](Returned /\ activities # <<>> =>
            /\ \A id \in NodesOfLayer(1) :
                 /\ nodes[id].parent = NodeId(2, Lower(nodes[id].label))
                 /\ nodes[id].parent \in NodesOfLayer(2)
            /\ Roots = {DayActivityId})

(* every call raised, two Layer-1 nodes, one of them with an upper-case label *)
C5_Witness ==
    /\ Returned
    /\ Cardinality(NodesOfLayer(1)) = 2
    /\ \E id \in NodesOfLayer(1) : Lower(nodes[id].label) # nodes[id].label
    /\ current_layer = 3

(* C6: after a round that creates layer k+1, each concept id that entered    *)
(* the round is in the children list of exactly one node of layer k+1.       *)
C6_NoConceptDropped ==
    (pc = "loop" /\ current_layer > 2) =>
        \A i \in DOMAIN entered :
            Cardinality({id \in NodesOfLayer(current_layer) : entered[i] \in Children(id)}) = 1

(* C7: once the parent of a node is set to a node id, no later step of the   *)
(* build changes it.                                                         *)
C7_ParentAssignedOnce ==
    [][\A id \in DOMAIN nodes :
          nodes[id].parent # None =>
              (id \in DOMAIN nodes' /\ nodes'[id].parent = nodes[id].parent)]_vars

(* C8: no children list of the returned node map contains an id twice.       *)
C8_NoDuplicateChildren ==
    Returned =>
        \A id \in DOMAIN nodes :
            \A i, j \in DOMAIN nodes[id].children :
                i # j => nodes[id].children[i] # nodes[id].children[j]

(* C9: in the returned node map every child has a smaller layer than its     *)
(* node, and the root has the strictly greatest layer of the map.            *)
C9_LayersIncrease ==
    (Returned /\ DOMAIN nodes # {}) =>
        /\ \A id \in DOMAIN nodes : \A c \in Children(id) :
               c \in DOMAIN nodes /\ nodes[c].layer < nodes[id].layer
        /\ \A id \in DOMAIN nodes \ {DayActivityId} :
               nodes[id].layer < nodes[DayActivityId].layer

(* a returned tree of five layers: two rounds above two Layer-1 nodes *)
C9_Witness ==
    /\ Returned
    /\ DayActivityId \in DOMAIN nodes
    /\ nodes[DayActivityId].layer = 5
    /\ Len(nodes[DayActivityId].children) = 1
    /\ Cardinality(NodesOfLayer(3)) = 2
    /\ Cardinality(NodesOfLayer(1)) = 2

(* C10: the layer of the root is exactly one more than the layer of each of  *)
(* its children, when the loop ends with one concept and when the            *)
(* non-convergence guard abandons aggregation.                               *)
C10_RootOneAboveChildren ==
    (Returned /\ DOMAIN nodes # {}) =>
        \A c \in Children(DayActivityId) :
            nodes[c].layer + 1 = nodes[DayActivityId].layer

(* C11: for an activity with at least one entry the extraction returns at    *)
(* least one concept for every outcome of the oracle (raise, JSON list of    *)
(* any content, text that is not a JSON list), so that every Layer-1 node    *)
(* gets a concept parent.                                                    *)
C11_ExtractNeverEmpty ==
    /\ (pc = "step3" /\ gi <= Len(activity_groups)) =>
           \A o \in ExtractOutcomes :
               extract_activity_concepts_llm(activity_groups[gi].name, o) # <<>>
    /\ \A g \in DOMAIN layer1_concepts : layer1_concepts[g] # <<>>
    /\ \A id \in NodesOfLayer(1) : nodes[id].parent # None

(* C12: for more than one concept the aggregation returns at least one       *)
(* broader concept for every outcome of the oracle, so that a round always   *)
(* has a category to map the current concepts to.                            *)
C12_AggregateNeverEmpty ==
    /\ (pc = "loop" /\ Len(current_concepts) > 1) =>
           \A o \in AggregateOutcomes :
               Len(aggregate_activities_llm(current_concepts, o)) >= 1
    /\ pc = "map" => Len(broader_concepts) >= 1

(* the least k with 2^k >= n *)
RECURSIVE CeilLog2(_)
CeilLog2(n) == IF n <= 1 THEN 0 ELSE 1 + CeilLog2((n + 1) \div 2)

(* C13: a loop that starts with n concepts runs at most ceil(log2 n) rounds, *)
(* whatever the oracle replies.                                              *)
C13_LogarithmicRounds ==
    current_layer >= 2 => Rounds <= CeilLog2(InitialConcepts)

(* the positions of the timestamp markers of a text *)
MarkerPositions(text) == {i \in DOMAIN text : text[i] \in Markers}

(* the position of the first marker after position p, or the end of the text *)
NextMarker(text, p) ==
    LET later == {q \in MarkerPositions(text) : q > p}
    IN IF later = {} THEN Len(text) + 1
       ELSE CHOOSE q \in later : \A r \in later : q <= r

(* the text between the marker at p and the next marker *)
BlockAfter(text, p) == SubSeq(text, p + 1, NextMarker(text, p) - 1)

(* the text before the first marker *)
Preamble(text) == SubSeq(text, 1, NextMarker(text, 0) - 1)

(* the files of the claim: missing or unreadable, without any marker, or     *)
(* with nothing but blanks before the first marker and after every marker    *)
NoEntryFile ==
    \/ file.kind \in {"missing", "unreadable"}
    \/ /\ file.kind = "text"
       /\ MarkerPositions(file.text) = {}
    \/ /\ file.kind = "text"
       /\ Strip(Preamble(file.text)) = <<>>
       /\ \A p \in MarkerPositions(file.text) : Lines(BlockAfter(file.text, p)) = <<>>

C16_MarkerPairedWithFollowingBlock ==
    (pc # "parse" /\ file.kind = "text") =>
        \A k \in DOMAIN activities :
            \E p \in MarkerPositions(file.text) :
                LET lines == Lines(BlockAfter(file.text, p))
                IN /\ activities[k].timestamp = <<file.text[p]>>
                   /\ lines # <<>>
                   /\ activities[k] = BlockEntry(<<file.text[p]>>, lines)

RECURSIVE IsSubSeq(_, _)
IsSubSeq(s, t) ==
    IF s = <<>> THEN TRUE
    ELSE IF t = <<>> THEN FALSE
    ELSE IF Head(s) = Head(t) THEN IsSubSeq(Tail(s), Tail(t))
    ELSE IsSubSeq(s, Tail(t))

RECURSIVE TotalEntries(_)
TotalEntries(groups) ==
    IF groups = <<>> THEN 0 ELSE Len(Head(groups).entries) + TotalEntries(Tail(groups))

(* C17: the groups partition the entries of the file: the group keys are     *)
(* distinct, every entry of a group has the key as its trimmed label, a      *)
(* group keeps its entries in input order, and the groups together have as   *)
(* many entries as the input.                                                *)
C17_GroupingPartition ==
    pc # "parse" =>
        LET groups == identify_layer1_activities(activities)
        IN /\ \A g, h \in DOMAIN groups : g # h => groups[g].name # groups[h].name
           /\ \A g \in DOMAIN groups :
                /\ groups[g].entries # <<>>
                /\ \A k \in DOMAIN groups[g].entries :
                       Strip(groups[g].entries[k].activity) = groups[g].name
                /\ IsSubSeq(groups[g].entries, activities)
           /\ TotalEntries(groups) = Len(activities)

(* three entries in two groups, the first group holds the first and the      *)
(* third entry                                                               *)
C17_Witness ==
    /\ pc = "step3"
    /\ Len(activities) = 3
    /\ Len(activity_groups) = 2
    /\ activity_groups[1].entries = <<activities[1], activities[3]>>
    /\ activities[1] # activities[3]

(* the timestamp and content of every entry, in input order *)
EntryTexts == [i \in DOMAIN activities |-> <<activities[i].timestamp, activities[i].content>>]

(* C15: in the returned map every node of layer 2 or more has empty content, *)
(* and every entry contributes its timestamp and content, in input order, to *)
(* the content of exactly one Layer-1 node, also when two labels normalise   *)
(* to the same Layer-1 id.                                                   *)
C15_ContentOnlyInLayer1 ==
    (Returned /\ activities # <<>>) =>
        /\ \A id \in DOMAIN nodes : nodes[id].layer >= 2 => nodes[id].content = <<>>
        /\ \A id \in NodesOfLayer(1) : IsSubSeq(nodes[id].content, EntryTexts)
        /\ \A i \in DOMAIN activities :
               Cardinality({id \in NodesOfLayer(1) : InSeq(EntryTexts[i], nodes[id].content)}) = 1

(* C18: every oracle call is made once per need: one extraction call per     *)
(* activity group, one aggregation call per round begun, one mapping call    *)
(* per round that is not abandoned, and one root-synthesis call unless       *)
(* exactly one concept remains; the counts do not depend on which calls      *)
(* failed.                                                                   *)
C18_OneCallPerNeed ==
    /\ calls.extract = (IF pc = "step1" THEN 0 ELSE gi - 1)
    /\ (pc \notin {"step1", "step3"} /\ activities # <<>>) =>
           calls.extract = Len(activity_groups)
    /\ calls.aggregate = (IF current_layer >= 2 THEN Rounds ELSE 0)
    /\ calls.mapping <= calls.aggregate
    /\ calls.aggregate - calls.mapping <= 1
    /\ pc = "loop" => calls.mapping = calls.aggregate
    /\ pc # "done" => calls.day = 0
    /\ (Returned /\ activities # <<>>) =>
           calls.day = (IF Len(current_concepts) = 1 THEN 0 ELSE 1)

(* two groups, a first round that builds a layer, a second round that is     *)
(* abandoned, and a root synthesised by a call                               *)
C18_Witness ==
    /\ Returned
    /\ calls = [extract |-> 2, aggregate |-> 2, mapping |-> 1, day |-> 1]
    /\ Len(current_concepts) = 2
    /\ DayActivityId \in DOMAIN nodes

(* C19: when every group yields the same single concept c, there is no       *)
(* aggregation, mapping or root-synthesis call and the returned map has      *)
(* G + 2 nodes for G groups: the G Layer-1 nodes, without children and with  *)
(* parent L2_c, the Layer-2 node of c with the Layer-1 ids in group order as *)
(* children, and the root at layer 3 with label c and children [L2_c].       *)
C19_SingleSharedConcept ==
    (/\ Returned
     /\ Len(activity_groups) >= 1
     /\ Len(layer1_concepts[1]) = 1
     /\ \A g \in DOMAIN layer1_concepts : layer1_concepts[g] = layer1_concepts[1]) =>
        LET c == layer1_concepts[1][1]
            G == Len(activity_groups)
            l2 == NodeId(2, c)
            l1 == [g \in 1..G |-> NodeId(1, activity_groups[g].name)]
        IN /\ calls.aggregate = 0 /\ calls.mapping = 0 /\ calls.day = 0
           /\ Cardinality(DOMAIN nodes) = G + 2
           /\ Cardinality(NodesOfLayer(1)) = G
           /\ \A g \in 1..G :
                /\ l1[g] \in DOMAIN nodes
                /\ nodes[l1[g]].layer = 1
                /\ nodes[l1[g]].children = <<>>
                /\ nodes[l1[g]].parent = l2
           /\ l2 \in DOMAIN nodes
           /\ nodes[l2] = ActivityNode(l2, c, 2, <<>>, l1, DayActivityId)
           /\ DayActivityId \in DOMAIN nodes
           /\ nodes[DayActivityId] = ActivityNode(DayActivityId, c, 3, <<>>, <<l2>>, None)

(* C20: serialisation leaves every node as it is, and the output has one     *)
(* record per node with the node's id, label, layer, children and parent,    *)
(* and with the node's content, cut to its first 200 characters followed by  *)
(* "..." exactly when truncation is requested and the content is longer than *)
(* 200 characters.                                                           *)
C20_SerializationFrame ==
    /\ [][pc' = "serialized" => nodes' = nodes]_vars
    /\ [](tree_data.done =>
            /\ Cardinality(tree_data.nodes) = Cardinality(DOMAIN nodes)
            /\ \A id \in DOMAIN nodes :
                 \E r \in tree_data.nodes :
                    LET text == ContentText(nodes[id].content)
                    IN /\ r.id = nodes[id].id
                       /\ r.label = nodes[id].label
                       /\ r.layer = nodes[id].layer
                       /\ r.children = nodes[id].children
                       /\ r.parent = nodes[id].parent
                       /\ r.content =
                            IF tree_data.truncate_content /\ Len(text) > 200
                            THEN SubSeq(text, 1, 200) \o <<".", ".", ".">>
                            ELSE text)

(* a truncating serialisation of a node with a content of 200 characters,    *)
(* kept whole, and of a node with a longer content, cut                      *)
C20_Witness ==
    /\ tree_data.done
    /\ tree_data.truncate_content
    /\ \E id \in NodesOfLayer(1) : Len(ContentText(nodes[id].content)) = 200
    /\ \E r \in tree_data.nodes : r.layer = 1 /\ Len(r.content) = 200
    /\ \E r \in tree_data.nodes : r.layer = 1 /\ Len(r.content) = 203

(* the text of a sequence of entries: for each entry its timestamp line, its *)
(* label line and its content lines                                          *)
RECURSIVE WriteEntries(_)
WriteEntries(es) ==
    IF es = <<>> THEN <<>>
    ELSE Head(es).timestamp \o <<"\n">> \o Head(es).activity \o <<"\n">> \o
         Head(es).content \o <<"\n">> \o WriteEntries(Tail(es))

(* C21: segmenting the text written from the entries of a segmentation gives *)
(* the same entries again, with the same timestamp, label and content.       *)
C21_SegmentationIdempotent ==
    pc # "parse" =>
        parse_refined_text([kind |-> "text", text |-> WriteEntries(activities)]) = activities

(* two entries have been segmented, one whose content is its label and one   *)
(* with a content of its own                                                 *)
C21_Witness ==
    /\ pc = "step1"
    /\ file.kind = "text"
    /\ Len(activities) = 2
    /\ activities[1].content = activities[1].activity
    /\ activities[2].content # activities[2].activity

RECURSIVE SortedSeq(_)
SortedSeq(S) ==
    IF S = {} THEN <<>>
    ELSE LET m == CHOOSE x \in S : \A y \in S : x <= y
         IN <<m>> \o SortedSeq(S \ {m})

(* the trimmed non-blank lines of a block, from the positions of its newlines *)
NonBlankLines(block) ==
    LET cuts == SortedSeq({0, Len(block) + 1} \cup {i \in DOMAIN block : block[i] = "\n"})
        raw == [k \in 1..(Len(cuts) - 1) |-> Strip(SubSeq(block, cuts[k] + 1, cuts[k + 1] - 1))]
    IN SelectSeq(raw, LAMBDA l : l # <<>>)

(* the entries the claim expects of the pairs of sections *)
ExpectedEntries ==
    LET sections == ReSplit(file.text, <<>>)
        start == IF Strip(sections[1]) = <<>> THEN 2 ELSE 1
        kept == SortedSeq({i \in start..(Len(sections) - 1) :
                              /\ (i - start) % 2 = 0
                              /\ Strip(sections[i]) # <<>>
                              /\ Strip(sections[i + 1]) # <<>>})
    IN [k \in DOMAIN kept |->
           LET ls == NonBlankLines(sections[kept[k] + 1])
           IN [timestamp |-> Strip(sections[kept[k]]),
               activity |-> ls[1],
               content |-> IF Len(ls) = 1 THEN ls[1] ELSE Join(Tail(ls), <<"\n">>)]]

(* C25: every pair of a timestamp and a text block gives one entry: its      *)
(* label is the first non-blank line of the block, its content the other     *)
(* non-blank lines joined by newlines, or the label when there is no other   *)
(* line; a pair with a blank timestamp or block gives no entry and the later *)
(* pairs are still processed.                                                *)
C25_BlockLabelAndContent ==
    (pc # "parse" /\ file.kind = "text") => activities = ExpectedEntries

(* a marker without text is followed by a marker with a label and a content *)
C25_Witness ==
    /\ pc = "step1"
    /\ file.kind = "text"
    /\ Len(file.text) = 5
    /\ file.text[1] = "T1"
    /\ Len(activities) = 1
    /\ activities[1].timestamp = <<"T2">>
    /\ activities[1].content # activities[1].activity

(* the category the claim assigns the i-th concept to, under mapping outcome m *)
AssignedCategory(i, m) ==
    LET fallback == broader_concepts[((i - 1) % Len(broader_concepts)) + 1]
    IN IF m.kind = "raise" THEN fallback
       ELSE IF current_concepts[i] \in DOMAIN m.mapping
               /\ InSeq(m.mapping[current_concepts[i]], broader_concepts)
            THEN m.mapping[current_concepts[i]]
            ELSE fallback

(* C22: in a round with categories B (non-empty) and concepts C, when the    *)
(* mapping call raises every C[i] is assigned to B[i mod len(B)]; when the   *)
(* reply maps C[i] to a member of B, C[i] is assigned to that member; when   *)
(* it maps C[i] outside B or omits it, C[i] alone is assigned to             *)
(* B[i mod len(B)]. Each category holds exactly the ids assigned to it, in   *)
(* the order of C.                                                           *)
C22_MappingOrRoundRobin ==
    (pc = "map" /\ Len(broader_concepts) > 0) =>
        \A m \in MappingOutcomes(current_concepts, broader_concepts) :
            LET cm == ConceptMapping(current_concepts, current_concept_ids, broader_concepts, m)
            IN \A b \in Range(broader_concepts) :
                 LET idx == SortedSeq({i \in DOMAIN current_concepts : AssignedCategory(i, m) = b})
                 IN cm[b] = [k \in DOMAIN idx |-> current_concept_ids[idx[k]]]

(* a round of three concepts and two categories has put the first two        *)
(* concepts under the second category and the third under the first, which   *)
(* the round-robin alone does not do                                         *)
C22_Witness ==
    /\ pc = "loop"
    /\ Len(entered) = 3
    /\ Len(current_concept_ids) = 2
    /\ current_concept_ids[1] # current_concept_ids[2]
    /\ current_concept_ids[1] \in DOMAIN nodes
    /\ current_concept_ids[2] \in DOMAIN nodes
    /\ nodes[current_concept_ids[1]].children = <<entered[3]>>
    /\ nodes[current_concept_ids[2]].children = <<entered[1], entered[2]>>

C24_FirstConceptIsParent ==
    (pc = "step3" /\ gi > Len(activity_groups)) =>
        \A g \in DOMAIN activity_groups :
            LET activity_id == NodeId(1, activity_groups[g].name)
                concepts == layer1_concepts[g]
            IN concepts # <<>> =>
                 /\ nodes[activity_id].parent = NodeId(2, concepts[1])
                 /\ \A k \in DOMAIN concepts :
                        /\ NodeId(2, concepts[k]) \in DOMAIN nodes
                        /\ InSeq(activity_id, nodes[NodeId(2, concepts[k])].children)

(* C29: in the returned map, every node whose parent is p is in the children *)
(* list of the node stored under p, also when two labels of one layer        *)
(* normalise to the same id.                                                 *)
C29_ParentChildrenAgree ==
    Returned =>
        \A id \in DOMAIN nodes :
            nodes[id].parent # None =>
                /\ nodes[id].parent \in DOMAIN nodes
                /\ InSeq(id, nodes[nodes[id].parent].children)

(* C30: in the returned map every node of layer 2 or more, the root          *)
(* included, has at least one child, for every reply of the mapping call.    *)
C30_OnlyLayer1Leaves ==
    Returned =>
        \A id \in DOMAIN nodes : nodes[id].layer >= 2 => nodes[id].children # <<>>

----------------------------------------------------------------------------
(* webapp: /api/generate-refined-text and /api/generate-activity-graph, the *)
(* requests of one date handled one after the other                         *)

(* no handler is running *)
Idle == {"idle", "serialized", "answered"}

(* the date parameter of a request *)
DateArgs == {"missing", "invalid", "valid"}

(* the text the handler reconstructs from the keystroke rows of the date:   *)
(* per app group a formatted time, the app and the text                     *)
RawContents ==
    {<<"T1", "\n", "A", "\n", "b", "\n">>,
     <<"T1", "\n", "A", "\n", "b", "\n", "T2", "\n", "b", "\n", "A", "\n">>}

(* the replies of the refinement model *)
RefinedReplies ==
    {<<>>, <<"A">>, <<"T1", "\n", "A", "\n", "b">>,
     <<"T1", "\n", "A", "\n", "T2", "\n", "b">>}

RefineOutcomes == {OracleRaise} \cup {[kind |-> "text", items |-> t] : t \in RefinedReplies}

(* "[Refinement failed: {e}]\n\n"; "F" stands for the bracketed note *)
RefinementFailedNote == <<"F", "\n", "\n">>

(* llm_refiner.refine_text: it returns a text for every outcome of the call *)
refine_text(raw_text, o) ==
    IF Strip(raw_text) = <<>> THEN raw_text
    ELSE IF o.kind = "raise" THEN RefinementFailedNote \o raw_text
    ELSE IF o.items # <<>> THEN o.items
    ELSE raw_text

(* the locals of the build of an earlier request are gone *)
NewBuild ==
    /\ activities' = <<>>
    /\ nodes' = EmptyMap
    /\ gi' = 1
    /\ layer1_concepts' = <<>>
    /\ current_layer' = 0
    /\ current_concepts' = <<>>
    /\ current_concept_ids' = <<>>
    /\ broader_concepts' = <<>>
    /\ entered' = <<>>
    /\ calls' = NoCalls
    /\ tree_data' = NoTreeData

(* the handler of /api/generate-refined-text; content = <<>> stands for no  *)
(* keystroke row of the date. refine_text never raises, so the except       *)
(* branch around its call is never taken.                                   *)
generate_refined_text ==
    /\ pc \in Idle
    /\ \E date \in DateArgs : \E content \in {<<>>} \cup RawContents : \E o \in RefineOutcomes :
         LET refined_content == refine_text(content, o)
             answer(status, refine) ==
                 [web EXCEPT !.status = status, !.request = "refine", !.refine = refine]
         IN IF date # "valid" THEN web' = answer(400, "none") /\ file' = file
            ELSE IF content = <<>> THEN web' = answer(404, "none") /\ file' = file
            ELSE /\ web' = answer(200, IF o.kind = "raise" THEN "failed" ELSE "done")
                 /\ file' = [kind |-> "text", text |-> refined_content]
    /\ pc' = "answered"
    /\ NewBuild
    /\ UNCHANGED tracker

(* the handler of /api/generate-activity-graph up to the call of            *)
(* build_activity_tree                                                      *)
generate_activity_tree ==
    /\ pc \in Idle
    /\ \E date \in DateArgs :
         LET answer(status) ==
                 [web EXCEPT !.status = status, !.request = "graph", !.refine = "none"]
         IN IF date # "valid" THEN web' = answer(400) /\ pc' = "answered"
            ELSE IF file.kind = "missing" THEN web' = answer(404) /\ pc' = "answered"
            ELSE web' = answer(0) /\ pc' = "parse"
    /\ NewBuild
    /\ UNCHANGED <<tracker, file>>

(* "if not nodes: return ... 500" *)
GraphEmpty ==
    /\ pc = "done"
    /\ EmptyResult(nodes)
    /\ web' = [web EXCEPT !.status = 500]
    /\ pc' = "answered"
    /\ UNCHANGED <<tracker, file, calls, tree_data, activities, nodes, gi, layer1_concepts,
                   current_layer, current_concepts, current_concept_ids, broader_concepts,
                   entered>>

(* "except Exception as e: return ... 500" *)
GraphRaised ==
    /\ pc = "raised"
    /\ web' = [web EXCEPT !.status = 500]
    /\ pc' = "answered"
    /\ UNCHANGED <<tracker, file, calls, tree_data, activities, nodes, gi, layer1_concepts,
                   current_layer, current_concepts, current_concept_ids, broader_concepts,
                   entered>>

(* the aggregation call replies with the empty JSON list *)
EmptyListReply == [kind |-> "json_list", items |-> <<>>]

InitWeb ==
    /\ file = [kind |-> "missing", text |-> <<>>]
    /\ pc = "idle"
    /\ activities = <<>>
    /\ InitBuild

(* the requests, and the build when the extraction, mapping and root calls  *)
(* raise and the aggregation call raises or replies with the empty list     *)
NextWeb ==
    \/ generate_refined_text
    \/ generate_activity_tree
    \/ ParseFile
    \/ Start
    \/ ExtractStepWith({OracleRaise})
    \/ StartAggregation
    \/ LoopExit
    \/ AggregateCallWith({OracleRaise, EmptyListReply})
    \/ RoundDivideByZero
    \/ RoundBuildWith({"raise"})
    \/ RootSynthesisWith({OracleRaise})
    \/ TreeToDict
    \/ GraphEmpty
    \/ GraphRaised

SpecWeb == InitWeb /\ [][NextWeb]_vars

(* C26: the graph handler writes the tree file of the date only after the   *)
(* build returned a non-empty map; when the build returns the empty map or  *)
(* raises, the handler answers with an error and the tree file written      *)
(* earlier is left as it was.                                               *)
C26_TreeFileOnlyAfterBuild ==
    [][/\ web'.tree_file # web.tree_file =>
            /\ pc = "done"
            /\ DOMAIN nodes # {}
            /\ web'.tree_file.nodes = tree_to_dict(nodes, FALSE)
            /\ web'.status = 200
       /\ (pc' # pc /\ (pc = "raised" \/ (pc = "done" /\ DOMAIN nodes = {}))) =>
            /\ web'.status = 500
            /\ web'.tree_file = web.tree_file]_vars

(* a tree file was written by an earlier request and a later build of the   *)
(* date has failed                                                          *)
C26_Witness ==
    /\ pc = "answered"
    /\ web.request = "graph"
    /\ web.status = 500
    /\ web.tree_file.done

(* C27: the refined-text handler persists a refined text only when the      *)
(* refinement call succeeded: when the call of the model inside refine_text *)
(* fails, the handler answers with status 500 and writes no refined file.   *)
C27_RefinedFileOnlyOnSuccess ==
    [][(web' # web /\ web'.request = "refine" /\ web'.refine = "failed") =>
           (web'.status = 500 /\ file' = file)]_vars

----------------------------------------------------------------------------
(* tracker.ActivityTracker: the keyboard listener thread, the mouse         *)
(* listener thread and the save thread share the object without a lock      *)

(* the state of the tree builder and of the web application *)
OtherVars == <<pc, activities, nodes, gi, layer1_concepts, current_layer, current_concepts,
               current_concept_ids, broader_concepts, entered, file, calls, tree_data, web>>

(* the results of get_active_app *)
Apps == {"X", "Y"}

(* on_key_press: "self.keystroke_count += 1" loads the counter *)
OnKeyPressLoad ==
    /\ tracker.listener = "idle"
    /\ tracker.pressed < MaxKeys
    /\ tracker' = [tracker EXCEPT !.listener = "store", !.pressed = @ + 1,
                                  !.loaded_count = tracker.keystroke_count]
    /\ UNCHANGED OtherVars

(* on_key_press: "self.keystroke_count += 1" stores the sum *)
OnKeyPressStore ==
    /\ tracker.listener = "store"
    /\ tracker' = [tracker EXCEPT !.listener = "append",
                                  !.keystroke_count = tracker.loaded_count + 1,
                                  !.loaded_count = 0]
    /\ UNCHANGED OtherVars

(* on_key_press: get_active_app() and self.keystroke_buffer.append(...) *)
OnKeyPressAppend ==
    /\ tracker.listener = "append"
    /\ \E current_app \in Apps :
         tracker' = [tracker EXCEPT !.listener = "idle",
                                    !.keystroke_buffer =
                                        Append(@, [key |-> tracker.pressed, app |-> current_app])]
    /\ UNCHANGED OtherVars

on_click ==
    /\ tracker.clicked < MaxClicks
    /\ tracker' = [tracker EXCEPT !.clicked = @ + 1, !.mouse_clicks = @ + 1]
    /\ UNCHANGED OtherVars

(* save_activity: the sleep is over and there is something to save *)
SaveWake ==
    /\ tracker.save = "sleep"
    /\ tracker.keystroke_count > 0 \/ tracker.mouse_clicks > 0
    /\ tracker' = [tracker EXCEPT !.save = "aggregate", !.i = 1, !.app_keystrokes = EmptyMap,
                                  !.flush = @ + 1]
    /\ UNCHANGED OtherVars

(* save_activity: one iteration of the first loop over the buffer *)
SaveAggregate ==
    /\ tracker.save = "aggregate"
    /\ tracker' =
         IF tracker.i <= Len(tracker.keystroke_buffer)
         THEN LET app == tracker.keystroke_buffer[tracker.i].app
              IN [tracker EXCEPT !.i = @ + 1,
                                 !.app_keystrokes =
                                     Put(@, app, MapGet(tracker.app_keystrokes, app, 0) + 1)]
         ELSE [tracker EXCEPT !.save = "insert", !.i = 1]
    /\ UNCHANGED OtherVars

(* save_activity: one iteration of the second loop, INSERT INTO keystroke_log *)
SaveInsert ==
    /\ tracker.save = "insert"
    /\ tracker' =
         IF tracker.i <= Len(tracker.keystroke_buffer)
         THEN LET keystroke == tracker.keystroke_buffer[tracker.i]
              IN [tracker EXCEPT !.i = @ + 1,
                                 !.keystroke_log =
                                     Append(@, [key |-> keystroke.key, app |-> keystroke.app,
                                                flush |-> tracker.flush])]
         ELSE [tracker EXCEPT !.save = "activity", !.i = 1]
    /\ UNCHANGED OtherVars

(* save_activity: main_app, the rows of activity_log and the commit *)
SaveActivityLog ==
    /\ tracker.save = "activity"
    /\ LET counts == tracker.app_keystrokes
       IN \E main_app \in Apps :
            /\ counts # EmptyMap =>
                 /\ main_app \in DOMAIN counts
                 /\ \A app \in DOMAIN counts : counts[app] <= counts[main_app]
            /\ LET rows == IF counts # EmptyMap
                           THEN {[app |-> app, keystrokes |-> counts[app],
                                  clicks |-> IF app = main_app THEN tracker.mouse_clicks ELSE 0,
                                  flush |-> tracker.flush] : app \in DOMAIN counts}
                           ELSE IF tracker.mouse_clicks > 0
                                THEN {[app |-> main_app, keystrokes |-> 0,
                                       clicks |-> tracker.mouse_clicks, flush |-> tracker.flush]}
                                ELSE {}
               IN tracker' = [tracker EXCEPT !.save = "reset_count",
                                             !.activity_log = @ \cup rows]
    /\ UNCHANGED OtherVars

(* save_activity: self.keystroke_count = 0 *)
SaveResetCount ==
    /\ tracker.save = "reset_count"
    /\ tracker' = [tracker EXCEPT !.save = "reset_clicks", !.keystroke_count = 0]
    /\ UNCHANGED OtherVars

(* save_activity: self.mouse_clicks = 0 *)
SaveResetClicks ==
    /\ tracker.save = "reset_clicks"
    /\ tracker' = [tracker EXCEPT !.save = "reset_buffer", !.mouse_clicks = 0]
    /\ UNCHANGED OtherVars

(* save_activity: self.keystroke_buffer = [] and the next sleep *)
SaveResetBuffer ==
    /\ tracker.save = "reset_buffer"
    /\ tracker' = [tracker EXCEPT !.save = "sleep", !.keystroke_buffer = <<>>,
                                  !.app_keystrokes = EmptyMap]
    /\ UNCHANGED OtherVars

InitTracker ==
    /\ file = [kind |-> "missing", text |-> <<>>]
    /\ pc = "idle"
    /\ activities = <<>>
    /\ InitBuild

NextTracker ==
    \/ OnKeyPressLoad
    \/ OnKeyPressStore
    \/ OnKeyPressAppend
    \/ on_click
    \/ SaveWake
    \/ SaveAggregate
    \/ SaveInsert
    \/ SaveActivityLog
    \/ SaveResetCount
    \/ SaveResetClicks
    \/ SaveResetBuffer

SpecTracker == InitTracker /\ [][NextTracker]_vars

(* the key presses whose on_key_press has returned *)
HandledKeys ==
    IF tracker.listener = "idle" THEN 1..tracker.pressed ELSE 1..(tracker.pressed - 1)

(* the keystroke_log rows of a key *)
LogRowsOfKey(k) == {n \in DOMAIN tracker.keystroke_log : tracker.keystroke_log[n].key = k}

(* the flushes whose activity_log rows are written *)
WrittenFlushes ==
    {f \in 1..tracker.flush :
        f < tracker.flush \/ tracker.save \in {"sleep", "reset_count", "reset_clicks", "reset_buffer"}}

RECURSIVE SumKeystrokes(_)
SumKeystrokes(rows) ==
    IF rows = {} THEN 0
    ELSE LET r == CHOOSE x \in rows : TRUE
         IN r.keystrokes + SumKeystrokes(rows \ {r})

(* C28: under every interleaving of the keyboard listener with the save     *)
(* thread, each key press handled by on_key_press is in keystroke_log once  *)
(* or still in the buffer for a later flush, never lost and never written   *)
(* twice, and the per-app keystroke counts a flush writes to activity_log   *)
(* sum to the number of keystroke_log rows the flush wrote.                 *)
C28_NoKeystrokeLostOrDoubled ==
    /\ \A k \in HandledKeys :
         /\ Cardinality(LogRowsOfKey(k)) <= 1
         /\ \/ Cardinality(LogRowsOfKey(k)) = 1
            \/ \E n \in DOMAIN tracker.keystroke_buffer : tracker.keystroke_buffer[n].key = k
    /\ \A f \in WrittenFlushes :
         SumKeystrokes({r \in tracker.activity_log : r.flush = f}) =
             Cardinality({n \in DOMAIN tracker.keystroke_log : tracker.keystroke_log[n].flush = f})

====
